---- MODULE Spec2Model ----
(***************************************************************************)
(* scripts/generate_cable_docs.py of television: the generator of the      *)
(* community-channel documentation.  For each OS family it lists the TOML  *)
(* definition files of cable/<os>, loads them in sorted order, renders one *)
(* Markdown fragment per channel and writes docs/community_channels/<os>.md *)
(*                                                                         *)
(* The file system the script works on is the state: the definition        *)
(* directories and their files, the asset images, the output directory and *)
(* the output documents.  One action models one statement (or one loop     *)
(* iteration) of the script; each call that changes the file system may    *)
(* fail, which raises OSError and ends the process, as does a malformed    *)
(* definition file.                                                        *)
(*                                                                         *)
(* Text is kept as the text the script builds.  A document is the sequence *)
(* of the pieces appended to it, each tagged with the template slot it     *)
(* comes from; the bytes of the document are the concatenation of the      *)
(* pieces' texts.  SANY's lexer rejects the grave accent inside a string   *)
(* literal, so that one character is written Backtick below.               *)
(***************************************************************************)
EXTENDS Integers, Sequences, FiniteSets, TLC

VARIABLES
    cable_exists,    \* [os -> BOOLEAN]: cable/<os> is a directory
    cable_files,     \* [os -> [file name -> content]]: the entries of cable/<os>
    assets,          \* the image paths that exist
    docs_dir_exists, \* docs/community_channels is a directory
    docs_file,       \* [os -> [exists, content]]: docs/community_channels/<os>.md
    stdout,          \* the lines printed by the running process
    pc,              \* the statement the process is at
    os_idx,          \* position of the for loop of __main__ (os_name = OS_NAMES[os_idx])
    docs,            \* generate_cable_docs: the accumulated document
    paths,           \* generate_cable_docs: sorted(cable_dir.glob("*.toml"))
    consumed,        \* how many paths the map iterator has yielded
    docs_content,    \* __main__: the document returned by generate_cable_docs
    error,           \* the exception that ended the process, if any
    run,             \* how many times the script has been started
    before,          \* history: [os -> [docs, cable]] when the current process started
    prev_output      \* history: [os -> the document the last earlier completed run left]

vars == <<cable_exists, cable_files, assets, docs_dir_exists, docs_file, stdout, pc,
          os_idx, docs, paths, consumed, docs_content, error, run, before, prev_output>>

fs_inputs == <<cable_files, assets>>

locals == <<docs, paths, consumed, docs_content>>

-----------------------------------------------------------------------------
(* Bounds *)

\* How many times the script is started, one process after the other.
MaxRuns == 2

-----------------------------------------------------------------------------
(* Text *)

Backtick == "<U+0060>"

\* The families the other way round.
OS_NAMES_reversed == <<"windows", "unix">>

OS_NAMES == <<"unix", "windows">>

OSFamilies == {OS_NAMES[i] : i \in 1..Len(OS_NAMES)}

\* Code points of the characters file names are made of (str comparison in
\* Python is by code point).
Ord(c) ==
    CASE c = "-" -> 45 [] c = "." -> 46
      [] c = "E" -> 69 [] c = "M" -> 77 [] c = "R" -> 82 [] c = "Z" -> 90
      [] c = "a" -> 97 [] c = "d" -> 100 [] c = "e" -> 101 [] c = "i" -> 105
      [] c = "l" -> 108 [] c = "m" -> 109 [] c = "o" -> 111 [] c = "p" -> 112
      [] c = "t" -> 116 [] c = "v" -> 118 [] c = "x" -> 120

RECURSIVE Join(_, _)
\* sep.join(items)
Join(items, sep) ==
    IF items = <<>> THEN ""
    ELSE IF Len(items) = 1 THEN items[1]
    ELSE items[1] \o sep \o Join(Tail(items), sep)

Range(s) == {s[i] : i \in 1..Len(s)}

-----------------------------------------------------------------------------
(* Paths *)

\* A file name is the sequence of its characters.
TOML_SUFFIX == <<".", "t", "o", "m", "l">>

\* fnmatch(name, "*.toml")
MatchesGlob(name) ==
    /\ Len(name) >= Len(TOML_SUFFIX)
    /\ SubSeq(name, Len(name) - Len(TOML_SUFFIX) + 1, Len(name)) = TOML_SUFFIX

RECURSIVE PathLt_descending(_, _)
\* PathLt with the comparison of the characters turned round.
PathLt_descending(a, b) ==
    IF b = <<>> THEN a # <<>>
    ELSE IF a = <<>> THEN FALSE
    ELSE IF Ord(Head(a)) > Ord(Head(b)) THEN TRUE
    ELSE IF Ord(Head(a)) < Ord(Head(b)) THEN FALSE
    ELSE PathLt_descending(Tail(a), Tail(b))

RECURSIVE PathLt(_, _)
\* Path.__lt__ for two entries of one directory: the parts before the file
\* name are equal, so the names decide, compared as str.
PathLt(a, b) ==
    IF a = <<>> THEN b # <<>>
    ELSE IF b = <<>> THEN FALSE
    ELSE IF Ord(Head(a)) < Ord(Head(b)) THEN TRUE
    ELSE IF Ord(Head(a)) > Ord(Head(b)) THEN FALSE
    ELSE PathLt(Tail(a), Tail(b))

RECURSIVE InsertSorted(_, _)
InsertSorted(x, s) ==
    IF s = <<>> THEN <<x>>
    ELSE IF PathLt(x, Head(s)) THEN <<x>> \o s
    ELSE <<Head(s)>> \o InsertSorted(x, Tail(s))

\* sorted() left out: the paths as the listing yields them.
sorted_as_listed(listing) == listing

RECURSIVE sorted(_)
\* sorted(iterable of paths)
sorted(listing) ==
    IF listing = <<>> THEN <<>>
    ELSE InsertSorted(Head(listing), sorted(Tail(listing)))

\* The orders in which iterating a directory can yield the entries S.
Listings(S) ==
    {l \in [1..Cardinality(S) -> S] : \A i, j \in 1..Cardinality(S) : l[i] = l[j] => i = j}

\* cable_dir.glob("*.toml"), as yielded in the order `listing` of the entries
Glob(listing) == SelectSeq(listing, MatchesGlob)

\* The image path without the family's directory.
ImgPath_flat(os_name, channel_name) == "assets/channels/" \o channel_name \o ".png"

\* str(Path(f"./assets/channels/{os_name}/{channel_name}.png"))
ImgPath(os_name, channel_name) ==
    "assets/channels/" \o os_name \o "/" \o channel_name \o ".png"

\* str(DOCS_CABLE_DIR.joinpath(f"{os_name}.md"))
DocsFilePath(os_name) == "docs/community_channels/" \o os_name \o ".md"

-----------------------------------------------------------------------------
(* Definition files and their parsing *)

\* A TOML value of the kinds the metadata holds: a string or an array of strings.
Str(s) == [t |-> "str", s |-> s, l |-> <<>>]

List(l) == [t |-> "list", s |-> "", l |-> l]

Field(k, v) == [key |-> k, value |-> v]

\* A file's content: whether it is TOML at all (and the decoder's message when it
\* is not), and its tables in the order written, each with its fields in the
\* order written.
Toml(sections) == [syntax_ok |-> TRUE, syntax_error |-> "", sections |-> sections]

NotToml(msg) == [syntax_ok |-> FALSE, syntax_error |-> msg, sections |-> <<>>]

Section(name, fields) == [name |-> name, fields |-> fields]

NoError == [type |-> "none", args |-> <<>>]

Raise(type, args) == [type |-> type, args |-> args]

\* key in d, for a dict d kept as the sequence of its items (key |-> ...)
HasKey(d, k) == \E i \in 1..Len(d) : d[i].key = k

\* d[key]
GetItem(d, k) == d[CHOOSE i \in 1..Len(d) : d[i].key = k].value

\* load_toml(path): the dict of the file's tables, each a dict of its fields;
\* the decoder sees the text of the file only.
load_toml(content) ==
    [i \in 1..Len(content.sections) |->
        [key |-> content.sections[i].name, value |-> content.sections[i].fields]]

\* The exception lines 21-25 raise for a file of this content: TomlDecodeError
\* from load_toml, KeyError from the three subscripts, in that order.
LoadError(content) ==
    IF ~content.syntax_ok THEN Raise("TomlDecodeError", <<content.syntax_error>>)
    ELSE LET channel == load_toml(content) IN
         IF ~HasKey(channel, "metadata") THEN Raise("KeyError", <<"metadata">>)
         ELSE LET metadata == GetItem(channel, "metadata") IN
              IF ~HasKey(metadata, "name") THEN Raise("KeyError", <<"name">>)
              ELSE IF ~HasKey(metadata, "description")
                   THEN Raise("KeyError", <<"description">>)
              ELSE NoError

\* channel["metadata"].get("requirements", [])
Requirements(channel) ==
    LET metadata == GetItem(channel, "metadata") IN
    IF HasKey(metadata, "requirements") THEN GetItem(metadata, "requirements").l
    ELSE <<>>

Quoted(s) == "\"" \o s \o "\""

\* toml's rendering of a value: a basic string, or an array with a space before
\* and a comma after each element
DumpValue(v) ==
    IF v.t = "str" THEN Quoted(v.s)
    ELSE "[" \o Join([i \in 1..Len(v.l) |-> " " \o Quoted(v.l[i]) \o ","], "") \o "]"

DumpField(f) == f.key \o " = " \o DumpValue(f.value) \o "\n"

DumpTable(item) ==
    "[" \o item.key \o "]\n"
    \o Join([i \in 1..Len(item.value) |-> DumpField(item.value[i])], "")

\* dumps(channel): the tables in the dict's order, a blank line between two
dumps(channel) == Join([i \in 1..Len(channel) |-> DumpTable(channel[i])], "\n")

-----------------------------------------------------------------------------
(* Rendering *)

Piece(kind, text) == [kind |-> kind, text |-> text]

\* lines 17-19
Title(os_name) == Piece("title", "\n# Community Channels (" \o os_name \o ")\n    ")

\* The requirements joined as they are, without the grave accents.
RequirementsLine_bare(channel_requirements) ==
    IF channel_requirements # <<>> THEN Join(channel_requirements, ", ") ELSE "*None*"

\* line 40: the requirements, or the marker when there are none
RequirementsLine(channel_requirements) ==
    IF channel_requirements # <<>>
    THEN Join([i \in 1..Len(channel_requirements) |->
                  Backtick \o channel_requirements[i] \o Backtick], ", ")
    ELSE "*None*"

\* lines 34-36: the image line, if the image exists
ImagePieces(os_name, channel_name, existing) ==
    IF ImgPath(os_name, channel_name) \in existing
    THEN <<Piece("image", "![tv running the " \o channel_name \o " channel]("
                          \o ImgPath(os_name, channel_name) \o ")\n")>>
    ELSE <<>>

\* lines 24-49: what one iteration of the loop appends to docs, for a channel
\* that loads
Fragment(os_name, channel, existing) ==
    LET channel_name == GetItem(GetItem(channel, "metadata"), "name").s
        channel_desc == GetItem(GetItem(channel, "metadata"), "description").s
        channel_requirements == Requirements(channel)
    IN  <<Piece("heading", "\n### " \o channel_name \o "\n"),
          Piece("description", "\n" \o channel_desc \o "\n\n")>>
        \o ImagePieces(os_name, channel_name, existing)
        \o <<Piece("requirements",
                   "**Requirements:**\n\n" \o RequirementsLine(channel_requirements) \o "\n"),
             Piece("code", "\n**Code:**\n\n" \o Backtick \o Backtick \o Backtick \o "toml\n"
                           \o dumps(channel) \o "\n" \o Backtick \o Backtick \o Backtick
                           \o "\n\n"),
             Piece("separator", "\n---\n")>>

\* lines 66-68: docs_file is by then the file object the with statement bound
\* to the name, so its repr is what is printed
Confirmation(os_name) ==
    "Generated documentation for " \o os_name \o " community channels at "
    \o "<_io.TextIOWrapper name='" \o DocsFilePath(os_name)
    \o "' mode='w' encoding='utf-8'>"

-----------------------------------------------------------------------------
(* The file systems the script is run on *)

iptv_toml == <<"i", "p", "t", "v", ".", "t", "o", "m", "l">>

plex_toml == <<"p", "l", "e", "x", ".", "t", "o", "m", "l">>

Zed_toml == <<"Z", "e", "d", ".", "t", "o", "m", "l">>

README_md == <<"R", "E", "A", "D", "M", "E", ".", "m", "d">>

TomlNames == {iptv_toml, plex_toml, Zed_toml}

PlexDef ==
    Toml(<<Section("metadata", <<Field("name", Str("Plex")),
                                Field("description", Str("Streams media"))>>)>>)

\* PlexDef with its fields and tables written in another order
PlexReordered ==
    Toml(<<Section("source", <<Field("command", Str("plexctl list"))>>),
           Section("metadata", <<Field("description", Str("Streams media")),
                                Field("name", Str("Plex"))>>)>>)

IptvDef ==
    Toml(<<Section("metadata", <<Field("name", Str("IPTV")),
                                Field("description", Str("Live TV")),
                                Field("requirements", List(<<"ffmpeg">>))>>)>>)

IptvNoDescription ==
    Toml(<<Section("metadata", <<Field("name", Str("IPTV")),
                                Field("requirements", List(<<"ffmpeg">>))>>)>>)

FetchDef ==
    Toml(<<Section("metadata", <<Field("requirements", List(<<"curl", "jq">>)),
                                Field("name", Str("Fetch")),
                                Field("description", Str(""))>>)>>)

EmptyRequirements ==
    Toml(<<Section("metadata", <<Field("name", Str("Plex")),
                                Field("description", Str("Streams media")),
                                Field("requirements", List(<<>>))>>)>>)

NoName ==
    Toml(<<Section("metadata", <<Field("description", Str("Streams media"))>>)>>)

NoMetadata == Toml(<<Section("source", <<Field("command", Str("ls"))>>)>>)

Garbage == NotToml("Key name found without value. Reached end of line. (line 1 column 5 char 4)")

WellFormed == {PlexDef, PlexReordered, IptvDef, FetchDef, EmptyRequirements}

Malformed == {IptvNoDescription, NoName, NoMetadata, Garbage}

Contents == WellFormed \cup Malformed

\* The text of a README is not TOML.
ReadmeText == NotToml("Invalid date or number (line 1 column 1 char 0)")

AssetPaths == {ImgPath("unix", "Plex"), ImgPath("windows", "Plex")}

Absent == [exists |-> FALSE, content |-> <<>>]

File(content) == [exists |-> TRUE, content |-> content]

\* A document left by an earlier version of the generator.
StaleDoc == <<Piece("title", "# Community Channels\n"), Piece("heading", "\n### Old\n")>>

NoFiles == [n \in {} |-> Garbage]

\* Every directory over TomlNames and README_md: any subset of the names, any
\* content for each definition file.
AllDirs ==
    {[n \in S |-> IF n = README_md THEN ReadmeText ELSE c[n]] :
        <<S, c>> \in (SUBSET (TomlNames \cup {README_md})) \X [TomlNames -> Contents]}

\* The directories of the pipeline's runs.
PipelineDirs ==
    { NoFiles,
      README_md :> ReadmeText,
      plex_toml :> PlexDef,
      iptv_toml :> IptvDef @@ plex_toml :> PlexReordered,
      iptv_toml :> IptvDef @@ plex_toml :> NoName,
      iptv_toml :> IptvNoDescription @@ plex_toml :> PlexDef,
      plex_toml :> Garbage }

-----------------------------------------------------------------------------
(* State *)

os_name == OS_NAMES[os_idx]

Snapshot == [os \in OSFamilies |-> [docs |-> docs_file[os], cable |-> cable_exists[os]]]

\* The process has printed the confirmation line of os.
Confirmed(os) == Confirmation(os) \in Range(stdout)

InitProcess ==
    /\ stdout = <<>>
    /\ pc = "mkdir_cable"
    /\ docs = <<>>
    /\ paths = <<>>
    /\ consumed = 0
    /\ docs_content = <<>>
    /\ error = NoError
    /\ run = 1
    /\ before = Snapshot
    /\ prev_output = [os \in OSFamilies |-> Absent]

\* The script is started (python scripts/generate_cable_docs.py) in a checkout.
Init ==
    /\ cable_files \in [OSFamilies -> PipelineDirs]
    /\ cable_exists \in [OSFamilies -> BOOLEAN]
    /\ \A os \in OSFamilies : DOMAIN cable_files[os] # {} => cable_exists[os]
    /\ assets \in {{}, AssetPaths}
    /\ docs_dir_exists \in BOOLEAN
    /\ docs_file \in [OSFamilies -> {Absent, File(StaleDoc)}]
    /\ \A os \in OSFamilies : docs_file[os].exists => docs_dir_exists
    /\ os_idx = 1
    /\ InitProcess

\* generate_cable_docs(os_name) is called for one family, on any directory.
InitGen ==
    /\ os_idx \in 1..Len(OS_NAMES)
    /\ \E d \in AllDirs, e \in BOOLEAN :
          /\ DOMAIN d # {} => e
          /\ cable_files = [os \in OSFamilies |-> IF os = os_name THEN d ELSE NoFiles]
          /\ cable_exists = [os \in OSFamilies |-> os = os_name /\ e]
    /\ assets \in SUBSET AssetPaths
    /\ docs_dir_exists = FALSE
    /\ docs_file = [os \in OSFamilies |-> Absent]
    /\ InitProcess

-----------------------------------------------------------------------------
(* The statements of the script *)

Abort(exc) ==
    /\ pc' = "aborted"
    /\ error' = exc

OSError(syscall, path) == Raise("OSError", <<syscall, path>>)

CableDirPath(os) == "cable/" \o os

\* The directory is not created.
MkdirCable_skipped ==
    /\ pc = "mkdir_cable"
    /\ pc' = "list"
    /\ UNCHANGED <<cable_exists, error, fs_inputs, docs_dir_exists, docs_file, stdout,
                   os_idx, locals, run, before, prev_output>>

\* line 15: cable_dir.mkdir(parents=True, exist_ok=True)
MkdirCable ==
    /\ pc = "mkdir_cable"
    /\ \/ /\ cable_exists' = [cable_exists EXCEPT ![os_name] = TRUE]
          /\ pc' = "list"
          /\ UNCHANGED error
       \/ /\ Abort(OSError("mkdir", CableDirPath(os_name)))
          /\ UNCHANGED cable_exists
    /\ UNCHANGED <<fs_inputs, docs_dir_exists, docs_file, stdout, os_idx, locals, run,
                   before, prev_output>>

\* The paths are kept in the order of the listing.
ListChannels_unsorted ==
    /\ pc = "list"
    /\ \E listing \in Listings(DOMAIN cable_files[os_name]) :
          paths' = Glob(listing)
    /\ docs' = <<Title(os_name)>>
    /\ consumed' = 0
    /\ pc' = "loop"
    /\ UNCHANGED <<cable_exists, fs_inputs, docs_dir_exists, docs_file, stdout, os_idx,
                   docs_content, error, run, before, prev_output>>

\* lines 17-21: the title, and the sorted paths of the definition files; map() is
\* lazy, no file is loaded yet
ListChannels ==
    /\ pc = "list"
    /\ \E listing \in Listings(DOMAIN cable_files[os_name]) :
          paths' = sorted(Glob(listing))
    /\ docs' = <<Title(os_name)>>
    /\ consumed' = 0
    /\ pc' = "loop"
    /\ UNCHANGED <<cable_exists, fs_inputs, docs_dir_exists, docs_file, stdout, os_idx,
                   docs_content, error, run, before, prev_output>>

\* A file that does not load is skipped and the loop goes on.
LoopBody_skipping ==
    /\ pc = "loop"
    /\ consumed < Len(paths)
    /\ consumed' = consumed + 1
    /\ LET content == cable_files[os_name][paths[consumed + 1]] IN
       IF LoadError(content) = NoError
       THEN docs' = docs \o Fragment(os_name, load_toml(content), assets)
       ELSE UNCHANGED docs
    /\ UNCHANGED <<cable_exists, fs_inputs, docs_dir_exists, docs_file, stdout, os_idx,
                   paths, docs_content, run, before, prev_output, pc, error>>

\* lines 23-49: one iteration: the next file is loaded and its fragment appended,
\* or the exception of a malformed file ends the process
LoopBody ==
    /\ pc = "loop"
    /\ consumed < Len(paths)
    /\ consumed' = consumed + 1
    /\ LET content == cable_files[os_name][paths[consumed + 1]] IN
       IF LoadError(content) = NoError
       THEN /\ docs' = docs \o Fragment(os_name, load_toml(content), assets)
            /\ UNCHANGED <<pc, error>>
       ELSE /\ Abort(LoadError(content))
            /\ UNCHANGED docs
    /\ UNCHANGED <<cable_exists, fs_inputs, docs_dir_exists, docs_file, stdout, os_idx,
                   paths, docs_content, run, before, prev_output>>

\* lines 23, 51, 56: the iterator is exhausted, docs is returned to __main__
LoopEnd ==
    /\ pc = "loop"
    /\ consumed = Len(paths)
    /\ docs_content' = docs
    /\ pc' = "mkdir_docs"
    /\ UNCHANGED <<cable_exists, fs_inputs, docs_dir_exists, docs_file, stdout, os_idx,
                   docs, paths, consumed, error, run, before, prev_output>>

\* line 59: docs_file.parent.mkdir(parents=True, exist_ok=True)
MkdirDocs ==
    /\ pc = "mkdir_docs"
    /\ \/ /\ docs_dir_exists' = TRUE
          /\ pc' = "unlink"
          /\ UNCHANGED error
       \/ /\ Abort(OSError("mkdir", "docs/community_channels"))
          /\ UNCHANGED docs_dir_exists
    /\ UNCHANGED <<cable_exists, fs_inputs, docs_file, stdout, os_idx, locals, run,
                   before, prev_output>>

\* lines 60-61: if docs_file.exists(): docs_file.unlink()
Unlink ==
    /\ pc = "unlink"
    /\ IF docs_file[os_name].exists
       THEN \/ /\ docs_file' = [docs_file EXCEPT ![os_name] = Absent]
               /\ pc' = "open"
               /\ UNCHANGED error
            \/ /\ Abort(OSError("unlink", DocsFilePath(os_name)))
               /\ UNCHANGED docs_file
       ELSE /\ pc' = "open"
            /\ UNCHANGED <<docs_file, error>>
    /\ UNCHANGED <<cable_exists, fs_inputs, docs_dir_exists, stdout, os_idx, locals, run,
                   before, prev_output>>

\* line 63: open(docs_file, "w", encoding="utf-8") creates the file or truncates it
Open ==
    /\ pc = "open"
    /\ \/ /\ docs_file' = [docs_file EXCEPT ![os_name] = File(<<>>)]
          /\ pc' = "write"
          /\ UNCHANGED error
       \/ /\ Abort(OSError("open", DocsFilePath(os_name)))
          /\ UNCHANGED docs_file
    /\ UNCHANGED <<cable_exists, fs_inputs, docs_dir_exists, stdout, os_idx, locals, run,
                   before, prev_output>>

\* What write() and the close of the with statement leave in a file that held
\* `old`: the whole of `new` after it.
Written(old, new) == File(old.content \o new)

\* What they leave when the device fails part-way: less than the whole of `new`.
PartlyWritten(old, new) ==
    {File(old.content \o SubSeq(new, 1, k)) : k \in 0..(Len(new) - 1)}

\* lines 63-64: docs_file.write(docs_content), and the file is closed
Write ==
    /\ pc = "write"
    /\ \/ /\ docs_file' = [docs_file EXCEPT
                             ![os_name] = Written(docs_file[os_name], docs_content)]
          /\ pc' = "print"
          /\ UNCHANGED error
       \/ /\ \E f \in PartlyWritten(docs_file[os_name], docs_content) :
                docs_file' = [docs_file EXCEPT ![os_name] = f]
          /\ Abort(OSError("write", DocsFilePath(os_name)))
    /\ UNCHANGED <<cable_exists, fs_inputs, docs_dir_exists, stdout, os_idx, locals, run,
                   before, prev_output>>

\* lines 55, 66-68: the confirmation line, then the next family or the end
PrintLine ==
    /\ pc = "print"
    /\ stdout' = Append(stdout, Confirmation(os_name))
    /\ IF os_idx < Len(OS_NAMES)
       THEN /\ os_idx' = os_idx + 1
            /\ pc' = "mkdir_cable"
       ELSE /\ pc' = "done"
            /\ UNCHANGED os_idx
    /\ UNCHANGED <<cable_exists, fs_inputs, docs_dir_exists, docs_file, locals, error, run,
                   before, prev_output>>

\* The script is started again, after the process before it has ended.
Start ==
    /\ pc \in {"done", "aborted"}
    /\ run < MaxRuns
    /\ run' = run + 1
    /\ pc' = "mkdir_cable"
    /\ os_idx' = 1
    /\ stdout' = <<>>
    /\ docs' = <<>>
    /\ paths' = <<>>
    /\ consumed' = 0
    /\ docs_content' = <<>>
    /\ error' = NoError
    /\ before' = Snapshot
    /\ prev_output' = [os \in OSFamilies |->
                         IF Confirmed(os) THEN docs_file[os] ELSE prev_output[os]]
    /\ UNCHANGED <<cable_exists, fs_inputs, docs_dir_exists, docs_file>>

NextGen == MkdirCable \/ ListChannels \/ LoopBody \/ LoopEnd

Next == NextGen \/ MkdirDocs \/ Unlink \/ Open \/ Write \/ PrintLine \/ Start

\* The whole script, run MaxRuns times.
Spec == Init /\ [][Next]_vars

\* One call of generate_cable_docs.
SpecGen == InitGen /\ [][NextGen]_vars

-----------------------------------------------------------------------------
(* What the properties speak of *)

\* The definition files of a family's directory.
DefinitionFiles(os) == DOMAIN cable_files[os] \cap TomlNames

\* a comes before b in lexicographic order: at the first place they differ a has
\* the smaller character, or a ends there
LexLess(a, b) ==
    \E k \in 1..(Len(a) + 1) :
        /\ k <= Len(b)
        /\ \A i \in 1..(k - 1) : a[i] = b[i]
        /\ k <= Len(a) => Ord(a[k]) < Ord(b[k])

\* The definition files of os in lexicographic order of their names.
InNameOrder(os) ==
    CHOOSE l \in Listings(DefinitionFiles(os)) :
        \A i, j \in 1..Len(l) : i < j => LexLess(l[i], l[j])

\* What a well-formed file declares, read off the file as written.
Declared(content, key) ==
    LET s == CHOOSE i \in 1..Len(content.sections) : content.sections[i].name = "metadata"
        fields == content.sections[s].fields
    IN  {fields[i].value : i \in {j \in 1..Len(fields) : fields[j].key = key}}

DeclaredName(content) == (CHOOSE v \in Declared(content, "name") : TRUE).s

DeclaredRequirements(content) ==
    IF Declared(content, "requirements") = {} THEN <<>>
    ELSE (CHOOSE v \in Declared(content, "requirements") : TRUE).l

HeadingOf(content) == "\n### " \o DeclaredName(content) \o "\n"

Kinds(pieces) == [i \in 1..Len(pieces) |-> pieces[i].kind]

Texts(pieces) == [i \in 1..Len(pieces) |-> pieces[i].text]

OfKind(pieces, kind) == SelectSeq(pieces, LAMBDA p : p.kind = kind)

RECURSIVE Flatten(_)
Flatten(ss) == IF ss = <<>> THEN <<>> ELSE Head(ss) \o Flatten(Tail(ss))

RECURSIVE SplitAfterSeparators(_, _)
SplitAfterSeparators(pieces, open) ==
    IF pieces = <<>> THEN (IF open = <<>> THEN <<>> ELSE <<open>>)
    ELSE IF Head(pieces).kind = "separator"
         THEN <<Append(open, Head(pieces))>> \o SplitAfterSeparators(Tail(pieces), <<>>)
         ELSE SplitAfterSeparators(Tail(pieces), Append(open, Head(pieces)))

\* The fragments of a document: what follows the title, cut after each separator.
Fragments(doc) == SplitAfterSeparators(Tail(doc), <<>>)

\* The complete document of a family whose definition files are all well-formed.
CorrectDoc(os) ==
    <<Title(os)>>
    \o Flatten([i \in 1..Len(InNameOrder(os)) |->
                   Fragment(os, load_toml(cable_files[os][InNameOrder(os)[i]]), assets)])

HasMalformedFile(os) == \E n \in DefinitionFiles(os) : cable_files[os][n] \in Malformed

\* generate_cable_docs has returned its document for the current family.
Returned == pc \in {"mkdir_docs", "unlink", "open", "write", "print"}

\* The process is inside the loop of generate_cable_docs, or past it.
Rendering == pc = "loop" \/ Returned

\* The process was ended by a definition file, not by a failing system call.
AbortedByFile == pc = "aborted" /\ error.type \in {"KeyError", "TomlDecodeError"}

\* The file the i-th iteration of the loop loaded.
Loaded(i) == cable_files[os_name][paths[i]]

-----------------------------------------------------------------------------
(* Properties of generate_cable_docs (SpecGen) *)

\* C1: the document generate_cable_docs returns has one section per definition
\* file of the family's directory, in the lexicographic order of the file names,
\* whatever the order the directory listing yields them in and whatever the
\* order of the fields inside the files.
C1_SectionsInFilenameOrder ==
    Returned =>
        /\ Texts(OfKind(docs_content, "heading"))
             = [i \in 1..Len(InNameOrder(os_name)) |->
                   HeadingOf(cable_files[os_name][InNameOrder(os_name)[i]])]
        /\ Len(Fragments(docs_content)) = Cardinality(DefinitionFiles(os_name))
        /\ Len(OfKind(docs_content, "heading")) = Len(OfKind(docs_content, "separator"))

\* Three definition files and a README; the file names sort Zed, iptv, plex while
\* the channel names they declare come out as Plex, Fetch, IPTV; one file has its
\* fields in another order.
C1_Witness ==
    /\ Returned
    /\ DOMAIN cable_files[os_name] = {Zed_toml, iptv_toml, plex_toml, README_md}
    /\ cable_files[os_name][Zed_toml] = PlexReordered
    /\ cable_files[os_name][iptv_toml] = FetchDef
    /\ cable_files[os_name][plex_toml] = IptvDef
    /\ Texts(OfKind(docs_content, "heading")) = <<"\n### Plex\n", "\n### Fetch\n", "\n### IPTV\n">>

\* The requirements written one after the other, each between grave accents, with
\* ", " before each but the first.
RECURSIVE ListedInOrder(_)
ListedInOrder(reqs) ==
    IF Len(reqs) = 1 THEN Backtick \o reqs[1] \o Backtick
    ELSE ListedInOrder(SubSeq(reqs, 1, Len(reqs) - 1))
         \o ", " \o Backtick \o reqs[Len(reqs)] \o Backtick

\* C6: the requirements line of a channel's fragment is the marker *None* when
\* the metadata declares no requirements or an empty array, and otherwise the
\* requirements in declared order, each in grave accents, joined by ", ", without
\* the marker; for ["curl", "jq"] it is `curl`, `jq`.
C6_RequirementsLine ==
    Rendering =>
        LET lines == Texts(OfKind(docs, "requirements")) IN
        /\ Len(lines) = consumed
        /\ \A i \in 1..consumed :
             LET reqs == DeclaredRequirements(Loaded(i)) IN
             /\ reqs = <<>> => lines[i] = "**Requirements:**\n\n*None*\n"
             /\ reqs # <<>> =>
                  /\ lines[i] = "**Requirements:**\n\n" \o ListedInOrder(reqs) \o "\n"
                  /\ lines[i] # "**Requirements:**\n\n*None*\n"
             /\ reqs = <<"curl", "jq">> =>
                  lines[i] = "**Requirements:**\n\n" \o Backtick \o "curl" \o Backtick
                             \o ", " \o Backtick \o "jq" \o Backtick \o "\n"

\* A document with the three cases: no requirements field, an empty array, and
\* ["curl", "jq"].
C6_Witness ==
    /\ Returned
    /\ consumed = 3
    /\ Loaded(1) = PlexReordered
    /\ Loaded(2) = EmptyRequirements
    /\ Loaded(3) = FetchDef
    /\ Texts(OfKind(docs_content, "requirements"))[3]
         = "**Requirements:**\n\n<U+0060>curl<U+0060>, <U+0060>jq<U+0060>\n"

\* C7: a channel's fragment holds no image reference when no image exists at
\* assets/channels/<os>/<name>.png, and no error is raised for that; when the
\* image exists it holds exactly one, between the description and the
\* requirements line, pointing at that path.  Apart from the image line the
\* fragment is the same in both cases.
C7_AssetLaw ==
    /\ Rendering =>
         /\ Len(Fragments(docs)) = consumed
         /\ \A i \in 1..consumed :
              LET fragment == Fragments(docs)[i]
                  name == DeclaredName(Loaded(i))
                  path == "assets/channels/" \o os_name \o "/" \o name \o ".png"
              IN  /\ path \notin assets =>
                        Kinds(fragment) = <<"heading", "description", "requirements",
                                            "code", "separator">>
                  /\ path \in assets =>
                        /\ Kinds(fragment) = <<"heading", "description", "image",
                                               "requirements", "code", "separator">>
                        /\ fragment[3].text
                             = "![tv running the " \o name \o " channel](" \o path \o ")\n"
                  /\ SelectSeq(fragment, LAMBDA p : p.kind # "image")
                       = Fragment(os_name, load_toml(Loaded(i)), {})
    /\ AbortedByFile => Loaded(consumed) \in Malformed

\* Two channels named Plex in the windows directory, and one that is not; only
\* the image of the unix Plex channel exists, so no fragment has an image.
C7_WitnessAbsent ==
    /\ Returned
    /\ os_name = "windows"
    /\ assets = {"assets/channels/unix/Plex.png"}
    /\ consumed = 3
    /\ Loaded(1) = PlexDef
    /\ OfKind(docs_content, "image") = <<>>

\* The image of the unix Plex channel exists: the fragment of Plex has the image
\* line, the fragment of IPTV has none.
C7_Witness ==
    /\ Returned
    /\ os_name = "unix"
    /\ "assets/channels/unix/Plex.png" \in assets
    /\ consumed = 2
    /\ Loaded(1) = IptvDef
    /\ Loaded(2) = PlexDef
    /\ Texts(OfKind(docs_content, "image"))
         = <<"![tv running the Plex channel](assets/channels/unix/Plex.png)\n">>
    /\ Kinds(Fragments(docs_content)[2])[2] = "description"
    /\ Kinds(Fragments(docs_content)[2])[3] = "image"
    /\ Kinds(Fragments(docs_content)[2])[4] = "requirements"

\* The directory of the scenario: plex.toml with name Plex, description "Streams
\* media" and no requirements; iptv.toml with name IPTV and requirements
\* ["ffmpeg"], with a description or, as the scenario is written, without one.
Scenario ==
    /\ os_name = "unix"
    /\ DOMAIN cable_files["unix"] = {plex_toml, iptv_toml}
    /\ cable_files["unix"][plex_toml] = PlexDef
    /\ cable_files["unix"][iptv_toml] \in {IptvDef, IptvNoDescription}

\* generate_cable_docs has ended for the current family, by returning or by the
\* exception of a definition file.
Ended == Returned \/ AbortedByFile

\* C9 as stated: in the scenario the unix document has exactly two sections, Plex
\* then IPTV, Plex with the marker *None* and IPTV with `ffmpeg`.
C9_PlexThenIptv ==
    Scenario /\ Ended =>
        /\ Returned
        /\ Texts(OfKind(docs_content, "heading")) = <<"\n### Plex\n", "\n### IPTV\n">>
        /\ Texts(OfKind(docs_content, "requirements"))
             = <<"**Requirements:**\n\n*None*\n",
                 "**Requirements:**\n\n" \o Backtick \o "ffmpeg" \o Backtick \o "\n">>

\* C9, amended: iptv.toml sorts before plex.toml, so when iptv.toml has a
\* description the unix document has exactly two sections, IPTV then Plex, IPTV
\* with `ffmpeg` and Plex with the marker *None*; when iptv.toml has no
\* description, KeyError('description') ends the run and there is no document.
C9_IptvThenPlex ==
    Scenario /\ Ended =>
        IF cable_files["unix"][iptv_toml] = IptvDef
        THEN /\ Returned
             /\ Texts(OfKind(docs_content, "heading")) = <<"\n### IPTV\n", "\n### Plex\n">>
             /\ Len(Fragments(docs_content)) = 2
             /\ Texts(OfKind(docs_content, "requirements"))
                  = <<"**Requirements:**\n\n" \o Backtick \o "ffmpeg" \o Backtick \o "\n",
                      "**Requirements:**\n\n*None*\n">>
        ELSE /\ pc = "aborted"
             /\ error = Raise("KeyError", <<"description">>)
             /\ consumed = 1

C9_Witness ==
    /\ Scenario
    /\ Returned
    /\ cable_files["unix"][iptv_toml] = IptvDef
    /\ Texts(OfKind(docs_content, "heading")) = <<"\n### IPTV\n", "\n### Plex\n">>

\* str(cable_dir / name)
PathStr(os, name) == "cable/" \o os \o "/" \o Join(name, "")

\* C4: the error with which a malformed definition file ends the run names that
\* file, so that the same defect in two files gives two different errors.
C4_ErrorNamesFile ==
    AbortedByFile => PathStr(os_name, paths[consumed]) \in Range(error.args)

-----------------------------------------------------------------------------
(* Properties of the whole script (Spec) *)

\* The process has ended.
Over == pc \in {"done", "aborted"}

\* C2: at the end of a run, whatever step failed, every family's output path
\* holds either the complete and correct document of the family or what it held
\* before the run: never a partial or empty document, never nothing where there
\* was a document.
C2_NoPartialSuccess ==
    Over =>
        \A os \in OSFamilies :
            \/ docs_file[os] = before[os].docs
            \/ /\ ~HasMalformedFile(os)
               /\ docs_file[os] = File(CorrectDoc(os))

\* C3: when a definition file of a family is malformed, the run never gets to
\* the write steps of that family: its output path is not removed, truncated or
\* written, and holds what it held before the run.
C3_MalformedLeavesOutput ==
    \A os \in OSFamilies :
        HasMalformedFile(os) =>
            /\ docs_file[os] = before[os].docs
            /\ ~Confirmed(os)
            /\ os_name = os => pc \in {"mkdir_cable", "list", "loop", "aborted"}
            /\ pc # "done"

\* The windows directory has a file without name; the run wrote the unix document
\* and was ended by KeyError, the old windows document still in place.
C3_Witness ==
    /\ AbortedByFile
    /\ os_name = "windows"
    /\ error = Raise("KeyError", <<"name">>)
    /\ consumed = 2
    /\ before["windows"].docs = File(StaleDoc)
    /\ docs_file["windows"] = File(StaleDoc)
    /\ Confirmed("unix")

\* The family's directory holds no definition file.
NoDefinitions(os) == \A n \in DOMAIN cable_files[os] : n \notin TomlNames

\* C5: when a family's directory is missing, or holds no definition file, that
\* is no error: only a failing system call can end the run in that family; the
\* directory is created, generate_cable_docs returns the title alone, and that
\* is the document written to the family's output path.
C5_MissingDirectory ==
    \A os \in OSFamilies :
        NoDefinitions(os) =>
            LET title == [kind |-> "title",
                          text |-> "\n# Community Channels (" \o os \o ")\n    "]
            IN  /\ (os_name = os /\ pc = "aborted") => error.type = "OSError"
                /\ (os_name = os /\ Rendering) => cable_exists[os] /\ paths = <<>>
                /\ (os_name = os /\ Returned) => docs_content = <<title>>
                /\ Confirmed(os) => cable_exists[os] /\ docs_file[os] = File(<<title>>)

\* cable/windows did not exist when the script was started; the run has created
\* it and written the title alone over the old windows document.
C5_Witness ==
    /\ pc = "done"
    /\ ~before["windows"].cable
    /\ cable_exists["windows"]
    /\ before["windows"].docs = File(StaleDoc)
    /\ docs_file["windows"]
         = File(<<Piece("title", "\n# Community Channels (windows)\n    ")>>)

\* The directory exists and holds a README only.
C5_WitnessNoMatch ==
    /\ pc = "done"
    /\ DOMAIN cable_files["unix"] = {README_md}
    /\ docs_file["unix"] = File(<<Piece("title", "\n# Community Channels (unix)\n    ")>>)

\* C8: a completed run leaves at each output path the document its inputs
\* determine, whatever the path held before and however often the script has
\* run; so a second run on unchanged inputs leaves the same bytes as the first.
C8_Idempotent ==
    \A os \in OSFamilies :
        Confirmed(os) =>
            /\ docs_file[os] = File(CorrectDoc(os))
            /\ prev_output[os].exists => docs_file[os] = prev_output[os]

\* The second run has written the unix document again, over the first run's, which
\* had replaced a stale one.
C8_Witness ==
    /\ run = 2
    /\ Confirmed("unix")
    /\ prev_output["unix"].exists
    /\ prev_output["unix"].content # StaleDoc
    /\ Len(docs_file["unix"].content) > 6
    /\ docs_file["unix"] = prev_output["unix"]

\* C10: unix is processed to completion, its document written and its line
\* printed, before windows begins; an abort in unix leaves windows unstarted, its
\* output path and directory as before the run and nothing printed; an abort in
\* windows leaves the unix document of this run in place.
C10_FamiliesInOrder ==
    /\ stdout \in {<<>>, <<Confirmation("unix")>>,
                   <<Confirmation("unix"), Confirmation("windows")>>}
    /\ pc = "done" <=> Confirmed("windows")
    /\ (os_name = "windows" /\ ~Confirmed("windows")) =>
          /\ stdout = <<Confirmation("unix")>>
          /\ docs_file["unix"] = File(CorrectDoc("unix"))
    /\ os_name = "unix" =>
          /\ stdout = <<>>
          /\ docs_file["windows"] = before["windows"].docs
          /\ cable_exists["windows"] = before["windows"].cable

\* The run was ended in windows by a malformed file, after it had replaced the
\* stale unix document.
C10_Witness ==
    /\ AbortedByFile
    /\ os_name = "windows"
    /\ before["unix"].docs = File(StaleDoc)
    /\ docs_file["unix"] = File(CorrectDoc("unix"))
    /\ Len(docs_file["unix"].content) > 1
    /\ stdout = <<Confirmation("unix")>>

\* The run was ended in unix: windows was never started.
C10_WitnessUnix ==
    /\ AbortedByFile
    /\ os_name = "unix"
    /\ ~cable_exists["windows"]
    /\ docs_file["windows"] = File(StaleDoc)
    /\ stdout = <<>>

====
